---- MODULE Spec2Model ----
(***************************************************************************)
(* Model of the BullMQ benchmark drivers:                                  *)
(*   "ts" = src/unnamed/part_000 (runtime-comparison.ts, five scenarios)   *)
(*   "js" = src/benchmark.js     (four scenarios)                          *)
(* The queue library and the key-value store are external: a call to them  *)
(* is issued in one step and settles (returns or fails) in a later step.   *)
(* One action is one run-to-completion segment of the JavaScript event     *)
(* loop: the code between two awaits, or one event-handler invocation up   *)
(* to its first await.                                                     *)
(***************************************************************************)
EXTENDS Integers, Sequences, FiniteSets, TLC

VARIABLES
    prog,        \* which script runs: "ts" or "js"
    cfg,         \* run configuration: numJobsAdd, batchSize, numJobsProcess, concurrency
    scen,        \* number of the scenario main is in (or about to call)
    pc,          \* the await main is suspended at
    i,           \* loop variable of the running submission loop
    inflight,    \* submissions issued and not yet settled
    now,         \* the clock (milliseconds)
    start,       \* per scenario: timer start, -1 while unset
    elapsed,     \* per scenario: elapsed value, -1 while unset
    queue,       \* per scenario: queue / flow-producer handle
    worker,      \* per scenario: worker handle
    helper,      \* per scenario: handles opened by cleanQueue and still open
    stored,      \* per scenario: unit ids persisted in the external store
    handed,      \* per scenario: indices handed to the queue, in call order
    batches,     \* sizes of the batches issued by the addition scenario
    waiting,     \* per scenario: pre-loaded units not yet fetched by the worker
    active,      \* per scenario: units being processed by the worker
    processed,   \* per scenario: the completion counter
    delivered,   \* per scenario: completion notifications delivered
    signals,     \* per scenario: times the done branch was entered
    hpc,         \* per scenario: the await the 'completed' handler is suspended at
    resolved,    \* per scenario: the value the promise was resolved with
    results,     \* results collected by main
    returned,    \* scenarios that returned to main
    thrown,      \* failures raised: where, and what had been done by then
    exitCode,    \* -1 while the process runs
    connection   \* the shared connection

cfgv    == <<prog, cfg>>
ctl     == <<scen, pc, i>>
timing  == <<start, elapsed>>
handles == <<queue, worker, helper, connection>>
sink    == <<stored, handed, batches, inflight>>
pool    == <<waiting, active, processed, delivered, signals, hpc, resolved>>
outcome == <<results, returned, thrown, exitCode>>
vars    == <<cfgv, ctl, now, timing, handles, sink, pool, outcome>>

----------------------------------------------------------------------------
\* Bounds of the model.
MaxAdd     == 3     \* largest job count of the addition scenarios
MaxBatch   == 2     \* largest parallel batch size
MaxProcess == 3     \* largest job count of the processing scenarios
MaxConc    == 2     \* largest worker concurrency
MaxTicks   == 1     \* times the clock advances during a run
Quantum    == 3     \* milliseconds the clock advances by at a time

\* chunkSize of benchmarkBulkAddition (10000 in the source), scaled down so
\* that job counts below, equal to and above it occur.
chunkSize  == 2

Scen == 1..5
None == 0 - 1     \* marks a number not taken yet

Programs == {"ts", "js"}

\* The scenarios main runs, in order.
Kinds(p) ==
    IF p = "ts" THEN <<"add", "bulk", "proc", "proc", "flow">>
    ELSE <<"add", "bulk", "proc", "flow">>

NumScen(p) == Len(Kinds(p))

Alive == exitCode = None

\* Mutant of Min: the clamp to the job count is forgotten.
Unclamped(a, b) == a

\* Math.min(a, b)
Min(a, b) == IF a < b THEN a ELSE b

\* Mutant of Ceil: Math.floor in place of Math.ceil.
Floor(a, b) == a \div b

\* Math.ceil(a / b) for a >= 0, b > 0
Ceil(a, b) == (a + b - 1) \div b

Range(s) == {s[x] : x \in 1..Len(s)}

\* <<a, a+1, ..., b-1>>
Interval(a, b) == [x \in 1..(b - a) |-> a + x - 1]

----------------------------------------------------------------------------
\* Rates.  A JavaScript number is a finite value (here an exact fraction
\* num/den), NaN or Infinity.
Num(n, d) == [kind |-> "num", num |-> n, den |-> d]
NaN       == [kind |-> "nan", num |-> 0, den |-> 1]
Infinity  == [kind |-> "inf", num |-> 0, den |-> 1]

\* a / b for a >= 0, b >= 0, with b given as bnum/bden
Divide(a, bnum, bden) ==
    IF bnum = 0 THEN (IF a = 0 THEN NaN ELSE Infinity)
    ELSE Num(a * bden, bnum)

\* Math.round: NaN and Infinity pass through, halves round up
MathRound(x) ==
    IF x.kind # "num" THEN x
    ELSE Num((2 * x.num + x.den) \div (2 * x.den), 1)

\* ts: Math.round(numJobs / (elapsed / 1000))
RoundedRate(numJobs, ms) == MathRound(Divide(numJobs, ms, 1000))

\* js: (count / duration) * 1000
PlainRate(count, duration) ==
    LET q == Divide(count, duration, 1)
    IN  IF q.kind # "num" THEN q ELSE Num(q.num * 1000, q.den)

Result(k, n, ms, r) == [scen |-> k, jobs |-> n, timeMs |-> ms, rate |-> r]

----------------------------------------------------------------------------
Init ==
    /\ prog \in Programs
    /\ cfg \in [numJobsAdd : 0..MaxAdd, batchSize : 1..MaxBatch,
                numJobsProcess : 0..MaxProcess, concurrency : 1..MaxConc]
    \* js has neither a batch size nor a configured concurrency
    /\ prog = "js" => cfg.batchSize = 1 /\ cfg.concurrency = 1
    /\ scen = 1
    /\ pc = "main"
    /\ i = 0
    /\ inflight = {}
    /\ now = 0
    /\ start = [k \in Scen |-> None]
    /\ elapsed = [k \in Scen |-> None]
    /\ queue = [k \in Scen |-> "none"]
    /\ worker = [k \in Scen |-> "none"]
    /\ helper = [k \in Scen |-> 0]
    /\ stored = [k \in Scen |-> {}]
    /\ handed = [k \in Scen |-> <<>>]
    /\ batches = <<>>
    /\ waiting = [k \in Scen |-> 0]
    /\ active = [k \in Scen |-> 0]
    /\ processed = [k \in Scen |-> 0]
    /\ delivered = [k \in Scen |-> 0]
    /\ signals = [k \in Scen |-> 0]
    /\ hpc = [k \in Scen |-> "idle"]
    /\ resolved = [k \in Scen |-> <<>>]
    /\ results = <<>>
    /\ returned = {}
    /\ thrown = <<>>
    /\ exitCode = None
    /\ connection = "open"

\* Date.now() / performance.now() advance between steps.
Tick ==
    /\ Alive
    /\ now < MaxTicks * Quantum
    /\ now' = now + Quantum
    /\ UNCHANGED <<cfgv, ctl, timing, handles, sink, pool, outcome>>

\* Mutant of Throw: the rejection is caught and logged, the run goes on.
Swallow(k) ==
    /\ thrown' = Append(thrown, [scen |-> k, at |-> pc, batch |-> i,
                                 handedLen |-> Len(handed[k]),
                                 kept |-> stored[k], via |-> "catch"])
    /\ exitCode' = exitCode
    /\ UNCHANGED <<results, returned>>

\* A rejected await inside a scenario: nothing in the scenario or in main
\* catches it, so it reaches main().catch / runBenchmarks().catch, which
\* calls process.exit(1).
Throw(k) ==
    /\ thrown' = Append(thrown, [scen |-> k, at |-> pc, batch |-> i,
                                 handedLen |-> Len(handed[k]),
                                 kept |-> stored[k], via |-> "catch"])
    /\ exitCode' = 1
    /\ UNCHANGED <<results, returned>>

\* A scenario returns its result to main, which records it.
Return(k, r) ==
    /\ results' = Append(results, r)
    /\ returned' = returned \cup {k}
    /\ scen' = k + 1
    /\ pc' = "main"
    /\ UNCHANGED <<thrown, exitCode>>

----------------------------------------------------------------------------
\* ts benchmarkJobAddition

\* The loop head of the batch loop at index b, with the timer started at s:
\* issue batch b, or leave the loop, stop the timer and call cleanup.
JobAdditionLoop(b, s) ==
    LET numJobs          == cfg.numJobsAdd
        numBatches       == Ceil(numJobs, cfg.batchSize)
        batchStart       == b * cfg.batchSize
        batchEnd         == Min(batchStart + cfg.batchSize, numJobs)
        currentBatchSize == batchEnd - batchStart
    IN  IF b < numBatches
        THEN /\ i' = b
             /\ handed' = [handed EXCEPT ![1] = @ \o Interval(batchStart, batchEnd)]
             /\ inflight' = inflight \cup {batchStart + j : j \in 0..(currentBatchSize - 1)}
             /\ batches' = Append(batches, currentBatchSize)
             /\ pc' = "batch"
             /\ elapsed' = elapsed
        ELSE /\ i' = b
             /\ elapsed' = [elapsed EXCEPT ![1] = now - s]
             /\ pc' = "purge"
             /\ UNCHANGED <<handed, inflight, batches>>

JobAdditionBegin ==
    /\ Alive /\ prog = "ts" /\ pc = "main" /\ scen = 1
    /\ queue' = [queue EXCEPT ![1] = "open"]
    /\ pc' = "cleanup"
    /\ UNCHANGED <<cfgv, scen, i, now, timing, worker, helper, connection, sink, pool, outcome>>

JobAdditionCleaned ==
    /\ Alive /\ prog = "ts" /\ pc = "cleanup" /\ scen = 1
    /\ \E ok \in BOOLEAN :
         IF ok
         THEN /\ stored' = [stored EXCEPT ![1] = {}]
              /\ start' = [start EXCEPT ![1] = now]
              /\ JobAdditionLoop(0, now)
              /\ UNCHANGED <<scen, outcome>>
         ELSE /\ Throw(1)
              /\ UNCHANGED <<ctl, timing, sink>>
    /\ UNCHANGED <<cfgv, now, handles, pool>>

\* One queue.add of the running batch settles.
JobAdditionAddSettles ==
    /\ Alive /\ prog = "ts" /\ pc = "batch" /\ scen = 1
    /\ \E j \in inflight, ok \in BOOLEAN :
         /\ inflight' = inflight \ {j}
         /\ IF ok
            THEN /\ stored' = [stored EXCEPT ![1] = @ \cup {j}]
                 /\ UNCHANGED outcome
            ELSE /\ Throw(1)
                 /\ stored' = stored
    /\ UNCHANGED <<cfgv, ctl, now, timing, handles, handed, batches, pool>>

\* Mutant of AllSettled: the batch's Promise.all is not awaited.
NotAwaited == TRUE

\* await Promise.all(promises): fulfilled once every submission of the
\* batch is (a rejected one rejects it at once, see JobAdditionAddSettles)
AllSettled == inflight = {}

\* Promise.all of the running batch is fulfilled: next loop iteration
JobAdditionBatchDone ==
    /\ Alive /\ prog = "ts" /\ pc = "batch" /\ scen = 1
    /\ AllSettled
    /\ JobAdditionLoop(i + 1, start[1])
    /\ UNCHANGED <<cfgv, scen, now, start, handles, stored, pool, outcome>>

JobAdditionPurged ==
    /\ Alive /\ prog = "ts" /\ pc = "purge" /\ scen = 1
    /\ \E ok \in BOOLEAN :
         IF ok
         THEN /\ stored' = [stored EXCEPT ![1] = {}]
              /\ pc' = "close"
              /\ UNCHANGED outcome
         ELSE /\ Throw(1)
              /\ UNCHANGED <<stored, pc>>
    /\ UNCHANGED <<cfgv, scen, i, now, timing, handles, handed, batches, inflight, pool>>

JobAdditionClosed ==
    /\ Alive /\ prog = "ts" /\ pc = "close" /\ scen = 1
    /\ \E ok \in BOOLEAN :
         IF ok
         THEN /\ queue' = [queue EXCEPT ![1] = "closed"]
              /\ Return(1, Result(1, cfg.numJobsAdd, elapsed[1],
                                  RoundedRate(cfg.numJobsAdd, elapsed[1])))
         ELSE /\ Throw(1)
              /\ UNCHANGED <<queue, scen, pc>>
    /\ UNCHANGED <<cfgv, i, now, timing, worker, helper, connection, sink, pool>>

----------------------------------------------------------------------------
\* ts benchmarkBulkAddition

\* The loop head of the chunk loop at index c, with the timer started at s:
\* build and submit the chunk starting at c, or leave the loop, stop the
\* timer and call cleanup.
BulkAdditionLoop(c, s) ==
    LET numJobs == cfg.numJobsAdd
        end     == Min(c + chunkSize, numJobs)
    IN  IF c < numJobs
        THEN /\ i' = c
             /\ handed' = [handed EXCEPT ![2] = @ \o Interval(c, end)]
             /\ inflight' = {j \in c..(end - 1) : TRUE}
             /\ pc' = "chunk"
             /\ elapsed' = elapsed
        ELSE /\ i' = c
             /\ elapsed' = [elapsed EXCEPT ![2] = now - s]
             /\ pc' = "purge"
             /\ UNCHANGED <<handed, inflight>>

BulkAdditionBegin ==
    /\ Alive /\ prog = "ts" /\ pc = "main" /\ scen = 2
    /\ queue' = [queue EXCEPT ![2] = "open"]
    /\ pc' = "cleanup"
    /\ UNCHANGED <<cfgv, scen, i, now, timing, worker, helper, connection, sink, pool, outcome>>

BulkAdditionCleaned ==
    /\ Alive /\ prog = "ts" /\ pc = "cleanup" /\ scen = 2
    /\ \E ok \in BOOLEAN :
         IF ok
         THEN /\ stored' = [stored EXCEPT ![2] = {}]
              /\ start' = [start EXCEPT ![2] = now]
              /\ BulkAdditionLoop(0, now)
              /\ UNCHANGED <<scen, outcome>>
         ELSE /\ Throw(2)
              /\ UNCHANGED <<ctl, timing, stored, handed, inflight>>
    /\ UNCHANGED <<cfgv, now, handles, batches, pool>>

\* queue.addBulk of the running chunk settles; on success the loop goes on.
BulkAdditionChunkSettles ==
    /\ Alive /\ prog = "ts" /\ pc = "chunk" /\ scen = 2
    /\ \E ok \in BOOLEAN :
         IF ok
         THEN /\ stored' = [stored EXCEPT ![2] = @ \cup inflight]
              /\ BulkAdditionLoop(i + chunkSize, start[2])
              /\ UNCHANGED <<scen, outcome>>
         ELSE /\ Throw(2)
              /\ UNCHANGED <<ctl, elapsed, stored, handed, inflight>>
    /\ UNCHANGED <<cfgv, now, start, handles, batches, pool>>

BulkAdditionPurged ==
    /\ Alive /\ prog = "ts" /\ pc = "purge" /\ scen = 2
    /\ \E ok \in BOOLEAN :
         IF ok
         THEN /\ stored' = [stored EXCEPT ![2] = {}]
              /\ pc' = "close"
              /\ UNCHANGED outcome
         ELSE /\ Throw(2)
              /\ UNCHANGED <<stored, pc>>
    /\ UNCHANGED <<cfgv, scen, i, now, timing, handles, handed, batches, inflight, pool>>

BulkAdditionClosed ==
    /\ Alive /\ prog = "ts" /\ pc = "close" /\ scen = 2
    /\ \E ok \in BOOLEAN :
         IF ok
         THEN /\ queue' = [queue EXCEPT ![2] = "closed"]
              /\ Return(2, Result(2, cfg.numJobsAdd, elapsed[2],
                                  RoundedRate(cfg.numJobsAdd, elapsed[2])))
         ELSE /\ Throw(2)
              /\ UNCHANGED <<queue, scen, pc>>
    /\ UNCHANGED <<cfgv, i, now, timing, worker, helper, connection, sink, pool>>

----------------------------------------------------------------------------
\* The external worker pool (bullmq Worker): it fetches pre-loaded units,
\* at most `concurrency` at a time, and emits one 'completed' notification
\* per unit when the unit's processor has returned.

\* ts passes the configured concurrency, js the literal 10.
Concurrency == IF prog = "ts" THEN cfg.concurrency ELSE 10

WorkerFetch ==
    /\ Alive
    /\ \E k \in Scen :
         /\ worker[k] = "running"
         /\ waiting[k] > 0
         /\ active[k] < Concurrency
         /\ waiting' = [waiting EXCEPT ![k] = @ - 1]
         /\ active' = [active EXCEPT ![k] = @ + 1]
    /\ UNCHANGED <<cfgv, ctl, now, timing, handles, sink, processed, delivered,
                   signals, hpc, resolved, outcome>>

\* A rejected await inside the 'completed' handler: the emitter drops the
\* handler's promise, so the rejection is unhandled and ends the process
\* with exit code 1; the scenario's promise is never resolved.
Unhandled(k) ==
    /\ thrown' = Append(thrown, [scen |-> k, at |-> hpc[k], batch |-> 0,
                                 handedLen |-> Len(handed[k]),
                                 kept |-> stored[k],
                                 via |-> "unhandledRejection"])
    /\ exitCode' = 1
    /\ UNCHANGED <<results, returned>>

----------------------------------------------------------------------------
\* ts benchmarkJobProcessing (scenario 3) and benchmarkJobProcessingWithWork
\* (scenario 4): the same code but for the processor's CPU work, which
\* only takes time.

IsTsProc(k) == prog = "ts" /\ k \in {3, 4}

\* Mutant of TsDone: the comparison reads the counter's value from before
\* the increment (processed++ === numJobs).
TsDonePostIncrement(count) == count - 1 = cfg.numJobsProcess

\* if (processed === numJobs), on the counter's value after processed++
TsDone(count) == count = cfg.numJobsProcess

\* Mutant of TsProcessingResult: the time is taken when the result is
\* built, after the teardown.
TsProcessingResultLate(k) ==
    Result(k, cfg.numJobsProcess, now - start[k],
           RoundedRate(cfg.numJobsProcess, now - start[k]))

\* { name, jobs: numJobs, timeMs: elapsed, rate: Math.round(...) }
TsProcessingResult(k) ==
    Result(k, cfg.numJobsProcess, elapsed[k],
           RoundedRate(cfg.numJobsProcess, elapsed[k]))

\* Mutant of TsDoneBranch: resolve is called before the teardown awaits.
TsDoneBranchResolvesFirst(k) ==
    /\ elapsed' = [elapsed EXCEPT ![k] = now - start[k]]
    /\ signals' = [signals EXCEPT ![k] = @ + 1]
    /\ worker' = [worker EXCEPT ![k] = "closing"]
    /\ hpc' = [hpc EXCEPT ![k] = "closeWorker"]
    /\ resolved' = [resolved EXCEPT ![k] =
          <<Result(k, cfg.numJobsProcess, now - start[k],
                   RoundedRate(cfg.numJobsProcess, now - start[k]))>>]

\* The done branch up to its first await: take the elapsed time and call
\* worker.close(); resolve is called only after the last await.
TsDoneBranch(k) ==
    /\ elapsed' = [elapsed EXCEPT ![k] = now - start[k]]
    /\ signals' = [signals EXCEPT ![k] = @ + 1]
    /\ worker' = [worker EXCEPT ![k] = "closing"]
    /\ hpc' = [hpc EXCEPT ![k] = "closeWorker"]
    /\ resolved' = resolved

JobProcessingBegin ==
    /\ Alive /\ pc = "main" /\ IsTsProc(scen)
    /\ queue' = [queue EXCEPT ![scen] = "open"]
    /\ pc' = "cleanup"
    /\ UNCHANGED <<cfgv, scen, i, now, timing, worker, helper, connection, sink, pool, outcome>>

\* cleanup returned: build the jobs array and call queue.addBulk(jobs)
JobProcessingCleaned ==
    /\ Alive /\ pc = "cleanup" /\ IsTsProc(scen)
    /\ \E ok \in BOOLEAN :
         IF ok
         THEN /\ stored' = [stored EXCEPT ![scen] = {}]
              /\ handed' = [handed EXCEPT ![scen] = Interval(0, cfg.numJobsProcess)]
              /\ inflight' = {j \in 0..(cfg.numJobsProcess - 1) : TRUE}
              /\ pc' = "preload"
              /\ UNCHANGED outcome
         ELSE /\ Throw(scen)
              /\ UNCHANGED <<pc, stored, handed, inflight>>
    /\ UNCHANGED <<cfgv, scen, i, now, timing, handles, batches, pool>>

\* addBulk returned: processed = 0, start the timer, create the worker
JobProcessingPreloaded ==
    /\ Alive /\ pc = "preload" /\ IsTsProc(scen)
    /\ \E ok \in BOOLEAN :
         IF ok
         THEN /\ stored' = [stored EXCEPT ![scen] = @ \cup inflight]
              /\ inflight' = {}
              /\ processed' = [processed EXCEPT ![scen] = 0]
              /\ start' = [start EXCEPT ![scen] = now]
              /\ worker' = [worker EXCEPT ![scen] = "running"]
              /\ waiting' = [waiting EXCEPT ![scen] = cfg.numJobsProcess]
              /\ pc' = "promise"
              /\ UNCHANGED outcome
         ELSE /\ Throw(scen)
              /\ UNCHANGED <<pc, stored, inflight, processed, start, worker, waiting>>
    /\ UNCHANGED <<cfgv, scen, i, now, elapsed, queue, helper, connection, handed, batches,
                   active, delivered, signals, hpc, resolved>>

\* Mutant of JobProcessingCompleted: the counter is written back from a
\* value read before another unit, still being processed, was fetched, so
\* the notification's increment is lost.
JobProcessingCompletedRacy ==
    /\ Alive
    /\ \E k \in Scen :
         /\ IsTsProc(k)
         /\ worker[k] \in {"running", "closing"}
         /\ active[k] > 0
         /\ active' = [active EXCEPT ![k] = @ - 1]
         /\ delivered' = [delivered EXCEPT ![k] = @ + 1]
         /\ processed' = [processed EXCEPT ![k] = IF active[k] > 1 THEN @ ELSE @ + 1]
         /\ IF TsDone(processed'[k])
            THEN TsDoneBranch(k)
            ELSE UNCHANGED <<elapsed, signals, worker, hpc, resolved>>
    /\ UNCHANGED <<cfgv, ctl, now, start, queue, helper, connection, sink, waiting,
                   outcome>>

\* worker.on('completed'): one notification is delivered and the handler
\* runs up to its first await.
JobProcessingCompleted ==
    /\ Alive
    /\ \E k \in Scen :
         /\ IsTsProc(k)
         /\ worker[k] \in {"running", "closing"}
         /\ active[k] > 0
         /\ active' = [active EXCEPT ![k] = @ - 1]
         /\ delivered' = [delivered EXCEPT ![k] = @ + 1]
         /\ processed' = [processed EXCEPT ![k] = @ + 1]
         /\ IF TsDone(processed[k] + 1)
            THEN TsDoneBranch(k)
            ELSE UNCHANGED <<elapsed, signals, worker, hpc, resolved>>
    /\ UNCHANGED <<cfgv, ctl, now, start, queue, helper, connection, sink, waiting,
                   outcome>>

\* worker.close() settles (it waits for the units being processed)
JobProcessingWorkerClosed ==
    /\ Alive
    /\ \E k \in Scen, ok \in BOOLEAN :
         /\ IsTsProc(k)
         /\ hpc[k] = "closeWorker"
         /\ active[k] = 0
         /\ IF ok
            THEN /\ worker' = [worker EXCEPT ![k] = "closed"]
                 /\ hpc' = [hpc EXCEPT ![k] = "cleanup"]
                 /\ UNCHANGED outcome
            ELSE /\ Unhandled(k)
                 /\ UNCHANGED <<worker, hpc>>
    /\ UNCHANGED <<cfgv, ctl, now, timing, queue, helper, connection, sink, waiting, active,
                   processed, delivered, signals, resolved>>

JobProcessingPurged ==
    /\ Alive
    /\ \E k \in Scen, ok \in BOOLEAN :
         /\ IsTsProc(k)
         /\ hpc[k] = "cleanup"
         /\ IF ok
            THEN /\ stored' = [stored EXCEPT ![k] = {}]
                 /\ hpc' = [hpc EXCEPT ![k] = "closeQueue"]
                 /\ UNCHANGED outcome
            ELSE /\ Unhandled(k)
                 /\ UNCHANGED <<stored, hpc>>
    /\ UNCHANGED <<cfgv, ctl, now, timing, handles, handed, batches, inflight,
                   waiting, active, processed, delivered, signals, resolved>>

\* queue.close() returned: resolve({name, jobs, timeMs, rate})
JobProcessingQueueClosed ==
    /\ Alive
    /\ \E k \in Scen, ok \in BOOLEAN :
         /\ IsTsProc(k)
         /\ hpc[k] = "closeQueue"
         /\ IF ok
            THEN /\ queue' = [queue EXCEPT ![k] = "closed"]
                 /\ resolved' = [resolved EXCEPT ![k] = <<TsProcessingResult(k)>>]
                 /\ hpc' = [hpc EXCEPT ![k] = "done"]
                 /\ UNCHANGED outcome
            ELSE /\ Unhandled(k)
                 /\ UNCHANGED <<queue, resolved, hpc>>
    /\ UNCHANGED <<cfgv, ctl, now, timing, worker, helper, connection, sink, waiting, active,
                   processed, delivered, signals>>

\* main's await of the scenario's promise continues once it is resolved
JobProcessingReturn ==
    /\ Alive /\ pc = "promise" /\ IsTsProc(scen)
    /\ resolved[scen] # <<>>
    /\ Return(scen, resolved[scen][1])
    /\ UNCHANGED <<cfgv, i, now, timing, handles, sink, pool>>

----------------------------------------------------------------------------
\* Flows.  Flow f is a parent unit in the parent queue and two child units
\* in the child queue; the units of flow f have the ids 3f, 3f+1, 3f+2.

\* ts main: Math.floor(NUM_JOBS_PROCESS / 3) flows; the literal flow count
\* of js is drawn from the same configuration.
NumFlows == cfg.numJobsProcess \div 3

FlowUnits(f) == {3 * f, 3 * f + 1, 3 * f + 2}

ParentUnits(S) == {u \in S : u % 3 = 0}

ChildUnits(S) == {u \in S : u % 3 # 0}

----------------------------------------------------------------------------
\* ts benchmarkFlowProducer

FlowProducerBegin ==
    /\ Alive /\ prog = "ts" /\ pc = "main" /\ scen = 5
    /\ queue' = [queue EXCEPT ![5] = "open"]
    /\ pc' = "cleanup"
    /\ UNCHANGED <<cfgv, scen, i, now, timing, worker, helper, connection, sink, pool, outcome>>

\* cleanup(queueName) returned: call cleanup(childQueueName)
FlowProducerCleanedParent ==
    /\ Alive /\ prog = "ts" /\ pc = "cleanup" /\ scen = 5
    /\ \E ok \in BOOLEAN :
         IF ok
         THEN /\ stored' = [stored EXCEPT ![5] = @ \ ParentUnits(@)]
              /\ pc' = "cleanupChild"
              /\ UNCHANGED outcome
         ELSE /\ Throw(5)
              /\ UNCHANGED <<stored, pc>>
    /\ UNCHANGED <<cfgv, scen, i, now, timing, handles, handed, batches, inflight, pool>>

\* cleanup(childQueueName) returned: start the timer, issue every
\* flowProducer.add and await them all
FlowProducerCleanedChild ==
    /\ Alive /\ prog = "ts" /\ pc = "cleanupChild" /\ scen = 5
    /\ \E ok \in BOOLEAN :
         IF ok
         THEN /\ stored' = [stored EXCEPT ![5] = @ \ ChildUnits(@)]
              /\ start' = [start EXCEPT ![5] = now]
              /\ handed' = [handed EXCEPT ![5] = Interval(0, NumFlows)]
              /\ inflight' = {f \in 0..(NumFlows - 1) : TRUE}
              /\ pc' = "flows"
              /\ UNCHANGED outcome
         ELSE /\ Throw(5)
              /\ UNCHANGED <<stored, start, handed, inflight, pc>>
    /\ UNCHANGED <<cfgv, scen, i, now, elapsed, handles, batches, pool>>

FlowProducerAddSettles ==
    /\ Alive /\ prog = "ts" /\ pc = "flows" /\ scen = 5
    /\ \E f \in inflight, ok \in BOOLEAN :
         /\ inflight' = inflight \ {f}
         /\ IF ok
            THEN /\ stored' = [stored EXCEPT ![5] = @ \cup FlowUnits(f)]
                 /\ UNCHANGED outcome
            ELSE /\ Throw(5)
                 /\ stored' = stored
    /\ UNCHANGED <<cfgv, ctl, now, timing, handles, handed, batches, pool>>

\* Promise.all is fulfilled: stop the timer, call cleanup(queueName)
FlowProducerAllDone ==
    /\ Alive /\ prog = "ts" /\ pc = "flows" /\ scen = 5
    /\ inflight = {}
    /\ elapsed' = [elapsed EXCEPT ![5] = now - start[5]]
    /\ pc' = "purge"
    /\ UNCHANGED <<cfgv, scen, i, now, start, handles, sink, pool, outcome>>

FlowProducerPurgedParent ==
    /\ Alive /\ prog = "ts" /\ pc = "purge" /\ scen = 5
    /\ \E ok \in BOOLEAN :
         IF ok
         THEN /\ stored' = [stored EXCEPT ![5] = @ \ ParentUnits(@)]
              /\ pc' = "purgeChild"
              /\ UNCHANGED outcome
         ELSE /\ Throw(5)
              /\ UNCHANGED <<stored, pc>>
    /\ UNCHANGED <<cfgv, scen, i, now, timing, handles, handed, batches, inflight, pool>>

FlowProducerPurgedChild ==
    /\ Alive /\ prog = "ts" /\ pc = "purgeChild" /\ scen = 5
    /\ \E ok \in BOOLEAN :
         IF ok
         THEN /\ stored' = [stored EXCEPT ![5] = @ \ ChildUnits(@)]
              /\ pc' = "close"
              /\ UNCHANGED outcome
         ELSE /\ Throw(5)
              /\ UNCHANGED <<stored, pc>>
    /\ UNCHANGED <<cfgv, scen, i, now, timing, handles, handed, batches, inflight, pool>>

FlowProducerClosed ==
    /\ Alive /\ prog = "ts" /\ pc = "close" /\ scen = 5
    /\ \E ok \in BOOLEAN :
         IF ok
         THEN /\ queue' = [queue EXCEPT ![5] = "closed"]
              /\ Return(5, Result(5, NumFlows * 3, elapsed[5],
                                  RoundedRate(NumFlows * 3, elapsed[5])))
         ELSE /\ Throw(5)
              /\ UNCHANGED <<queue, scen, pc>>
    /\ UNCHANGED <<cfgv, i, now, timing, worker, helper, connection, sink, pool>>

----------------------------------------------------------------------------
\* js benchmarkAddJobs

\* The loop head at index idx, with the timer started at s: submit job idx
\* and await it, or leave the loop, take the duration and call obliterate.
AddJobsLoop(idx, s) ==
    IF idx < cfg.numJobsAdd
    THEN /\ i' = idx
         /\ handed' = [handed EXCEPT ![1] = Append(@, idx)]
         /\ inflight' = {idx}
         /\ pc' = "add"
         /\ elapsed' = elapsed
    ELSE /\ i' = idx
         /\ elapsed' = [elapsed EXCEPT ![1] = now - s]
         /\ inflight' = {}
         /\ pc' = "purge"
         /\ handed' = handed

AddJobsBegin ==
    /\ Alive /\ prog = "js" /\ pc = "main" /\ scen = 1
    /\ queue' = [queue EXCEPT ![1] = "open"]
    /\ start' = [start EXCEPT ![1] = now]
    /\ AddJobsLoop(0, now)
    /\ UNCHANGED <<cfgv, scen, now, worker, helper, connection, stored, batches,
                   pool, outcome>>

AddJobsAddSettles ==
    /\ Alive /\ prog = "js" /\ pc = "add" /\ scen = 1
    /\ \E ok \in BOOLEAN :
         IF ok
         THEN /\ stored' = [stored EXCEPT ![1] = @ \cup {i}]
              /\ AddJobsLoop(i + 1, start[1])
              /\ UNCHANGED <<scen, outcome>>
         ELSE /\ Throw(1)
              /\ UNCHANGED <<ctl, elapsed, stored, handed, inflight>>
    /\ UNCHANGED <<cfgv, now, start, handles, batches, pool>>

\* queue.obliterate({ force: true }) settled
AddJobsPurged ==
    /\ Alive /\ prog = "js" /\ pc = "purge" /\ scen = 1
    /\ \E ok \in BOOLEAN :
         IF ok
         THEN /\ stored' = [stored EXCEPT ![1] = {}]
              /\ pc' = "close"
              /\ UNCHANGED outcome
         ELSE /\ Throw(1)
              /\ UNCHANGED <<stored, pc>>
    /\ UNCHANGED <<cfgv, scen, i, now, timing, handles, handed, batches, inflight, pool>>

AddJobsClosed ==
    /\ Alive /\ prog = "js" /\ pc = "close" /\ scen = 1
    /\ \E ok \in BOOLEAN :
         IF ok
         THEN /\ queue' = [queue EXCEPT ![1] = "closed"]
              /\ Return(1, Result(1, cfg.numJobsAdd, elapsed[1],
                                  PlainRate(cfg.numJobsAdd, elapsed[1])))
         ELSE /\ Throw(1)
              /\ UNCHANGED <<queue, scen, pc>>
    /\ UNCHANGED <<cfgv, i, now, timing, worker, helper, connection, sink, pool>>

----------------------------------------------------------------------------
\* js benchmarkBulkAdd: one addBulk call with every job

BulkAddBegin ==
    /\ Alive /\ prog = "js" /\ pc = "main" /\ scen = 2
    /\ queue' = [queue EXCEPT ![2] = "open"]
    /\ handed' = [handed EXCEPT ![2] = Interval(0, cfg.numJobsAdd)]
    /\ inflight' = {j \in 0..(cfg.numJobsAdd - 1) : TRUE}
    /\ start' = [start EXCEPT ![2] = now]
    /\ pc' = "chunk"
    /\ UNCHANGED <<cfgv, scen, i, now, elapsed, worker, helper, connection, stored,
                   batches, pool, outcome>>

BulkAddSettles ==
    /\ Alive /\ prog = "js" /\ pc = "chunk" /\ scen = 2
    /\ \E ok \in BOOLEAN :
         IF ok
         THEN /\ stored' = [stored EXCEPT ![2] = @ \cup inflight]
              /\ inflight' = {}
              /\ elapsed' = [elapsed EXCEPT ![2] = now - start[2]]
              /\ pc' = "purge"
              /\ UNCHANGED outcome
         ELSE /\ Throw(2)
              /\ UNCHANGED <<stored, inflight, elapsed, pc>>
    /\ UNCHANGED <<cfgv, scen, i, now, start, handles, handed, batches, pool>>

BulkAddPurged ==
    /\ Alive /\ prog = "js" /\ pc = "purge" /\ scen = 2
    /\ \E ok \in BOOLEAN :
         IF ok
         THEN /\ stored' = [stored EXCEPT ![2] = {}]
              /\ pc' = "close"
              /\ UNCHANGED outcome
         ELSE /\ Throw(2)
              /\ UNCHANGED <<stored, pc>>
    /\ UNCHANGED <<cfgv, scen, i, now, timing, handles, handed, batches, inflight, pool>>

BulkAddClosed ==
    /\ Alive /\ prog = "js" /\ pc = "close" /\ scen = 2
    /\ \E ok \in BOOLEAN :
         IF ok
         THEN /\ queue' = [queue EXCEPT ![2] = "closed"]
              /\ Return(2, Result(2, cfg.numJobsAdd, elapsed[2],
                                  PlainRate(cfg.numJobsAdd, elapsed[2])))
         ELSE /\ Throw(2)
              /\ UNCHANGED <<queue, scen, pc>>
    /\ UNCHANGED <<cfgv, i, now, timing, worker, helper, connection, sink, pool>>

----------------------------------------------------------------------------
\* js benchmarkProcessing (scenario 3)

IsJsProc(k) == prog = "js" /\ k = 3

\* if (processed >= count), on the counter's value after processed++
JsDone(count) == count >= cfg.numJobsProcess

\* { duration, jobsPerSecond, count }
JsProcessingResult(k) ==
    Result(k, cfg.numJobsProcess, elapsed[k],
           PlainRate(cfg.numJobsProcess, elapsed[k]))

\* The done branch up to its first await: take duration and jobsPerSecond
\* and call worker.close(); resolve is called only after the last await.
JsDoneBranch(k) ==
    /\ elapsed' = [elapsed EXCEPT ![k] = now - start[k]]
    /\ signals' = [signals EXCEPT ![k] = @ + 1]
    /\ worker' = [worker EXCEPT ![k] = "closing"]
    /\ hpc' = [hpc EXCEPT ![k] = "closeWorker"]
    /\ resolved' = resolved

\* new Queue, build the jobs array and call queue.addBulk(jobs)
ProcessingBegin ==
    /\ Alive /\ pc = "main" /\ IsJsProc(scen)
    /\ queue' = [queue EXCEPT ![scen] = "open"]
    /\ handed' = [handed EXCEPT ![scen] = Interval(0, cfg.numJobsProcess)]
    /\ inflight' = {j \in 0..(cfg.numJobsProcess - 1) : TRUE}
    /\ pc' = "preload"
    /\ UNCHANGED <<cfgv, scen, i, now, timing, worker, helper, connection, stored,
                   batches, pool, outcome>>

\* addBulk returned: processed = 0, start the timer, create the worker
ProcessingPreloaded ==
    /\ Alive /\ pc = "preload" /\ IsJsProc(scen)
    /\ \E ok \in BOOLEAN :
         IF ok
         THEN /\ stored' = [stored EXCEPT ![scen] = @ \cup inflight]
              /\ inflight' = {}
              /\ processed' = [processed EXCEPT ![scen] = 0]
              /\ start' = [start EXCEPT ![scen] = now]
              /\ worker' = [worker EXCEPT ![scen] = "running"]
              /\ waiting' = [waiting EXCEPT ![scen] = cfg.numJobsProcess]
              /\ pc' = "promise"
              /\ UNCHANGED outcome
         ELSE /\ Throw(scen)
              /\ UNCHANGED <<pc, stored, inflight, processed, start, worker, waiting>>
    /\ UNCHANGED <<cfgv, scen, i, now, elapsed, queue, helper, connection, handed, batches,
                   active, delivered, signals, hpc, resolved>>

\* worker.on('completed'): one notification is delivered and the handler
\* runs up to its first await; duration and jobsPerSecond are taken here.
ProcessingCompleted ==
    /\ Alive
    /\ \E k \in Scen :
         /\ IsJsProc(k)
         /\ worker[k] \in {"running", "closing"}
         /\ active[k] > 0
         /\ active' = [active EXCEPT ![k] = @ - 1]
         /\ delivered' = [delivered EXCEPT ![k] = @ + 1]
         /\ processed' = [processed EXCEPT ![k] = @ + 1]
         /\ IF JsDone(processed[k] + 1)
            THEN JsDoneBranch(k)
            ELSE UNCHANGED <<elapsed, signals, worker, hpc, resolved>>
    /\ UNCHANGED <<cfgv, ctl, now, start, queue, helper, connection, sink, waiting,
                   outcome>>

ProcessingWorkerClosed ==
    /\ Alive
    /\ \E k \in Scen, ok \in BOOLEAN :
         /\ IsJsProc(k)
         /\ hpc[k] = "closeWorker"
         /\ active[k] = 0
         /\ IF ok
            THEN /\ worker' = [worker EXCEPT ![k] = "closed"]
                 /\ hpc' = [hpc EXCEPT ![k] = "cleanup"]
                 /\ UNCHANGED outcome
            ELSE /\ Unhandled(k)
                 /\ UNCHANGED <<worker, hpc>>
    /\ UNCHANGED <<cfgv, ctl, now, timing, queue, helper, connection, sink, waiting, active,
                   processed, delivered, signals, resolved>>

\* queue.obliterate({ force: true }) settled
ProcessingPurged ==
    /\ Alive
    /\ \E k \in Scen, ok \in BOOLEAN :
         /\ IsJsProc(k)
         /\ hpc[k] = "cleanup"
         /\ IF ok
            THEN /\ stored' = [stored EXCEPT ![k] = {}]
                 /\ hpc' = [hpc EXCEPT ![k] = "closeQueue"]
                 /\ UNCHANGED outcome
            ELSE /\ Unhandled(k)
                 /\ UNCHANGED <<stored, hpc>>
    /\ UNCHANGED <<cfgv, ctl, now, timing, handles, handed, batches, inflight,
                   waiting, active, processed, delivered, signals, resolved>>

\* queue.close() returned: resolve({ duration, jobsPerSecond, count })
ProcessingQueueClosed ==
    /\ Alive
    /\ \E k \in Scen, ok \in BOOLEAN :
         /\ IsJsProc(k)
         /\ hpc[k] = "closeQueue"
         /\ IF ok
            THEN /\ queue' = [queue EXCEPT ![k] = "closed"]
                 /\ resolved' = [resolved EXCEPT ![k] = <<JsProcessingResult(k)>>]
                 /\ hpc' = [hpc EXCEPT ![k] = "done"]
                 /\ UNCHANGED outcome
            ELSE /\ Unhandled(k)
                 /\ UNCHANGED <<queue, resolved, hpc>>
    /\ UNCHANGED <<cfgv, ctl, now, timing, worker, helper, connection, sink, waiting, active,
                   processed, delivered, signals>>

ProcessingReturn ==
    /\ Alive /\ pc = "promise" /\ IsJsProc(scen)
    /\ resolved[scen] # <<>>
    /\ Return(scen, resolved[scen][1])
    /\ UNCHANGED <<cfgv, i, now, timing, handles, sink, pool>>

----------------------------------------------------------------------------
\* js benchmarkFlows (scenario 4) and cleanQueue

\* The loop head at index idx, with the timer started at s: submit flow idx
\* and await it, or leave the loop, take the duration and call
\* cleanQueue(parentQueueName), which opens a queue and calls obliterate.
FlowsLoop(idx, s) ==
    IF idx < NumFlows
    THEN /\ i' = idx
         /\ handed' = [handed EXCEPT ![4] = Append(@, idx)]
         /\ inflight' = {idx}
         /\ pc' = "flow"
         /\ UNCHANGED <<elapsed, helper>>
    ELSE /\ i' = idx
         /\ elapsed' = [elapsed EXCEPT ![4] = now - s]
         /\ inflight' = {}
         /\ helper' = [helper EXCEPT ![4] = @ + 1]
         /\ pc' = "cleanParent"
         /\ handed' = handed

FlowsBegin ==
    /\ Alive /\ prog = "js" /\ pc = "main" /\ scen = 4
    /\ queue' = [queue EXCEPT ![4] = "open"]
    /\ start' = [start EXCEPT ![4] = now]
    /\ FlowsLoop(0, now)
    /\ UNCHANGED <<cfgv, scen, now, worker, connection, stored, batches, pool, outcome>>

FlowsAddSettles ==
    /\ Alive /\ prog = "js" /\ pc = "flow" /\ scen = 4
    /\ \E ok \in BOOLEAN :
         IF ok
         THEN /\ stored' = [stored EXCEPT ![4] = @ \cup FlowUnits(i)]
              /\ FlowsLoop(i + 1, start[4])
              /\ UNCHANGED <<scen, outcome>>
         ELSE /\ Throw(4)
              /\ UNCHANGED <<ctl, elapsed, helper, stored, handed, inflight>>
    /\ UNCHANGED <<cfgv, now, start, queue, worker, connection, batches, pool>>

\* cleanQueue(parentQueueName): q.obliterate settled, call q.close()
FlowsParentObliterated ==
    /\ Alive /\ prog = "js" /\ pc = "cleanParent" /\ scen = 4
    /\ \E ok \in BOOLEAN :
         IF ok
         THEN /\ stored' = [stored EXCEPT ![4] = @ \ ParentUnits(@)]
              /\ pc' = "closeParent"
              /\ UNCHANGED outcome
         ELSE /\ Throw(4)
              /\ UNCHANGED <<stored, pc>>
    /\ UNCHANGED <<cfgv, scen, i, now, timing, handles, handed, batches, inflight, pool>>

\* cleanQueue(parentQueueName) returned: cleanQueue(childQueueName) opens a
\* queue and calls obliterate
FlowsParentClosed ==
    /\ Alive /\ prog = "js" /\ pc = "closeParent" /\ scen = 4
    /\ \E ok \in BOOLEAN :
         IF ok
         THEN /\ helper' = [helper EXCEPT ![4] = @ - 1 + 1]
              /\ pc' = "cleanChild"
              /\ UNCHANGED outcome
         ELSE /\ Throw(4)
              /\ UNCHANGED <<helper, pc>>
    /\ UNCHANGED <<cfgv, scen, i, now, timing, queue, worker, connection, sink, pool>>

FlowsChildObliterated ==
    /\ Alive /\ prog = "js" /\ pc = "cleanChild" /\ scen = 4
    /\ \E ok \in BOOLEAN :
         IF ok
         THEN /\ stored' = [stored EXCEPT ![4] = @ \ ChildUnits(@)]
              /\ pc' = "closeChild"
              /\ UNCHANGED outcome
         ELSE /\ Throw(4)
              /\ UNCHANGED <<stored, pc>>
    /\ UNCHANGED <<cfgv, scen, i, now, timing, handles, handed, batches, inflight, pool>>

\* cleanQueue(childQueueName) returned: call flowProducer.close()
FlowsChildClosed ==
    /\ Alive /\ prog = "js" /\ pc = "closeChild" /\ scen = 4
    /\ \E ok \in BOOLEAN :
         IF ok
         THEN /\ helper' = [helper EXCEPT ![4] = @ - 1]
              /\ pc' = "close"
              /\ UNCHANGED outcome
         ELSE /\ Throw(4)
              /\ UNCHANGED <<helper, pc>>
    /\ UNCHANGED <<cfgv, scen, i, now, timing, queue, worker, connection, sink, pool>>

FlowsClosed ==
    /\ Alive /\ prog = "js" /\ pc = "close" /\ scen = 4
    /\ \E ok \in BOOLEAN :
         IF ok
         THEN /\ queue' = [queue EXCEPT ![4] = "closed"]
              /\ Return(4, Result(4, NumFlows, elapsed[4],
                                  PlainRate(NumFlows, elapsed[4])))
         ELSE /\ Throw(4)
              /\ UNCHANGED <<queue, scen, pc>>
    /\ UNCHANGED <<cfgv, i, now, timing, worker, helper, connection, sink, pool>>

----------------------------------------------------------------------------
\* The end of main (ts) and of runBenchmarks (js).

\* Every scenario has returned: print the summary, call connection.quit()
MainQuit ==
    /\ Alive /\ pc = "main" /\ scen = NumScen(prog) + 1
    /\ pc' = "quit"
    /\ UNCHANGED <<cfgv, scen, i, now, timing, handles, sink, pool, outcome>>

\* quit settled.  ts: main returns and the process ends with code 0, or the
\* rejection reaches main().catch.  js: .then calls process.exit(0), .catch
\* calls process.exit(1).
ConnectionQuit ==
    /\ Alive /\ pc = "quit"
    /\ \E ok \in BOOLEAN :
         IF ok
         THEN /\ connection' = "closed"
              /\ exitCode' = 0
              /\ UNCHANGED <<results, returned, thrown>>
         ELSE /\ thrown' = Append(thrown, [scen |-> scen, at |-> pc, batch |-> i,
                                           handedLen |-> 0, kept |-> {},
                                           via |-> "catch"])
              /\ exitCode' = 1
              /\ UNCHANGED <<results, returned, connection>>
    /\ UNCHANGED <<cfgv, ctl, now, timing, queue, worker, helper, sink, pool>>

----------------------------------------------------------------------------
Next ==
    \/ Tick
    \/ JobAdditionBegin
    \/ JobAdditionCleaned
    \/ JobAdditionAddSettles
    \/ JobAdditionBatchDone
    \/ JobAdditionPurged
    \/ JobAdditionClosed
    \/ BulkAdditionBegin
    \/ BulkAdditionCleaned
    \/ BulkAdditionChunkSettles
    \/ BulkAdditionPurged
    \/ BulkAdditionClosed
    \/ WorkerFetch
    \/ JobProcessingBegin
    \/ JobProcessingCleaned
    \/ JobProcessingPreloaded
    \/ JobProcessingCompleted
    \/ JobProcessingWorkerClosed
    \/ JobProcessingPurged
    \/ JobProcessingQueueClosed
    \/ JobProcessingReturn
    \/ FlowProducerBegin
    \/ FlowProducerCleanedParent
    \/ FlowProducerCleanedChild
    \/ FlowProducerAddSettles
    \/ FlowProducerAllDone
    \/ FlowProducerPurgedParent
    \/ FlowProducerPurgedChild
    \/ FlowProducerClosed
    \/ AddJobsBegin
    \/ AddJobsAddSettles
    \/ AddJobsPurged
    \/ AddJobsClosed
    \/ BulkAddBegin
    \/ BulkAddSettles
    \/ BulkAddPurged
    \/ BulkAddClosed
    \/ ProcessingBegin
    \/ ProcessingPreloaded
    \/ ProcessingCompleted
    \/ ProcessingWorkerClosed
    \/ ProcessingPurged
    \/ ProcessingQueueClosed
    \/ ProcessingReturn
    \/ FlowsBegin
    \/ FlowsAddSettles
    \/ FlowsParentObliterated
    \/ FlowsParentClosed
    \/ FlowsChildObliterated
    \/ FlowsChildClosed
    \/ FlowsClosed
    \/ MainQuit
    \/ ConnectionQuit

Spec == Init /\ [][Next]_vars

\* The event loop runs every handler that is due, the worker processes
\* every unit it holds and every call to the queue service settles: as
\* long as a step other than the passing of time is possible, one is taken.
Fairness == WF_vars(Next /\ now' = now)

FairSpec == Spec /\ Fairness

----------------------------------------------------------------------------
\* Properties.

\* The processing scenarios of the running script.
ProcScens == {k \in 1..NumScen(prog) : Kinds(prog)[k] = "proc"}

\* The smallest q with q * b >= a.
CeilOf(a, b) == CHOOSE q \in 0..a : q * b >= a /\ \A r \in 0..a : r * b >= a => q <= r

RECURSIVE SumSeq(_)
SumSeq(q) == IF q = <<>> THEN 0 ELSE q[1] + SumSeq(Tail(q))

\* C1: in a processing scenario with expected count N >= 1 the done branch
\* has been entered exactly once if the observed count has reached N and
\* not at all while it is below N, whatever the order of the completion
\* notifications.
C1_DoneSignalledOnceAtN ==
    \A k \in ProcScens :
        cfg.numJobsProcess >= 1 =>
            /\ processed[k] <= cfg.numJobsProcess
            /\ signals[k] = IF processed[k] = cfg.numJobsProcess THEN 1 ELSE 0

\* C1 witness: two workers, at least two units, the count has reached N
\* and the done branch has run to its end.
C1_Witness ==
    \E k \in ProcScens :
        /\ cfg.numJobsProcess >= 2 /\ cfg.concurrency = 2
        /\ processed[k] = cfg.numJobsProcess
        /\ signals[k] = 1 /\ hpc[k] = "done"

\* C2: once benchmarkJobAddition has left its batch loop it has issued
\* exactly ceil(total/batchSize) batches, every batch but the last of size
\* batchSize, the last of size total - batchSize*floor(total/batchSize)
\* (batchSize when that is 0), none of size 0, and the sizes sum to total.
C2_BatchPartition ==
    (prog = "ts" /\ elapsed[1] # None) =>
        LET total == cfg.numJobsAdd
            size  == cfg.batchSize
            n     == Len(batches)
            rest  == total - size * (total \div size)
        IN  /\ n = CeilOf(total, size)
            /\ \A x \in 1..(n - 1) : batches[x] = size
            /\ n > 0 => batches[n] = IF rest = 0 THEN size ELSE rest
            /\ \A x \in 1..n : batches[x] > 0
            /\ SumSeq(batches) = total

\* C2 witness: the loop was left with a total that the batch size does not
\* divide, after more than one batch.
C2_Witness ==
    /\ prog = "ts" /\ elapsed[1] # None
    /\ cfg.numJobsAdd % cfg.batchSize # 0
    /\ Len(batches) >= 2

\* C3: in benchmarkJobAddition every submission in flight belongs to the
\* newest batch issued, so no submission of a batch is issued while one of
\* an earlier batch is in flight, and at most batchSize are in flight.
C3_OneBatchInFlight ==
    (prog = "ts" /\ scen = 1) =>
        /\ Cardinality(inflight) <= cfg.batchSize
        /\ \A x \in inflight : \A y \in Range(handed[1]) :
               y \div cfg.batchSize <= x \div cfg.batchSize

\* C3 witness: a later batch is in flight after an earlier full batch of
\* two submissions.
C3_Witness ==
    /\ prog = "ts" /\ scen = 1 /\ pc = "batch"
    /\ cfg.batchSize = 2 /\ i >= 1 /\ inflight # {}

\* Scenario k has performed an operation: it created its queue (or flow
\* producer), the first thing every scenario does.
Started(k) == queue[k] # "none"

\* Scenario k's teardown is complete: worker closed, queue state purged,
\* every handle it opened closed.
TornDown(k) ==
    /\ queue[k] = "closed"
    /\ worker[k] \in {"none", "closed"}
    /\ helper[k] = 0
    /\ stored[k] = {}

\* Control has left scenario k: it returned to main, or a failure raised
\* in it ended the run.
Left(k) == k \in returned \/ \E x \in 1..Len(thrown) : thrown[x].scen = k

\* C4: whenever control has left a scenario that had started, by a return
\* or by a failure of one of its calls, the scenario's teardown has been
\* performed.
C4_TeardownOnEveryExit ==
    \A k \in Scen : (Started(k) /\ Left(k)) => TornDown(k)

\* C5: a scenario performs its first operation only when the scenario
\* before it has returned its result with its teardown complete, and the
\* connection is closed (or being closed) only when every scenario has
\* returned.
C5_StrictlySequential ==
    /\ \A k \in 2..NumScen(prog) :
          Started(k) => ((k - 1) \in returned /\ TornDown(k - 1))
    /\ (pc = "quit" \/ connection = "closed") =>
          /\ returned = 1..NumScen(prog)
          /\ Len(results) = NumScen(prog)
          /\ \A k \in 1..NumScen(prog) : TornDown(k)

\* C5 witness: the scenario after a processing scenario is under way.
C5_Witness ==
    \E k \in ProcScens :
        /\ Started(k + 1) /\ scen = k + 1 /\ pc # "main"
        /\ cfg.numJobsProcess >= 2

\* The indices of the batches before batch b of the addition scenario.
BatchesBefore(b) ==
    {j \in 0..(cfg.numJobsAdd - 1) :
        j < b * (IF prog = "ts" THEN cfg.batchSize ELSE 1)}

\* C6: a failure raised in a scenario ends the run with exit code 1 in the
\* same step: no later submission or batch is issued, no later scenario is
\* started, and what the batches that completed before a failing
\* submission of the addition scenario had stored is still stored.  Exit
\* code 0 is reached only when every scenario has returned and nothing
\* failed.
C6_FailureEndsRun ==
    /\ \A x \in 1..Len(thrown) :
          LET t == thrown[x]
          IN  /\ exitCode = 1
              /\ Len(thrown) = 1
              /\ scen = t.scen
              /\ \A k \in Scen : k > t.scen => ~Started(k)
              /\ t.scen \in Scen =>
                    /\ Len(handed[t.scen]) = t.handedLen
                    /\ t.kept \subseteq stored[t.scen]
              /\ (t.scen = 1 /\ t.at \in {"batch", "add"}) =>
                    /\ t.via = "catch"
                    /\ i = t.batch
                    /\ BatchesBefore(t.batch) \subseteq stored[1]
    /\ exitCode = 0 =>
          /\ thrown = <<>>
          /\ returned = 1..NumScen(prog)
    /\ exitCode \in {None, 0, 1}

\* C6 witness: a submission of the second batch failed after the first
\* batch had completed.
C6_Witness ==
    /\ prog = "ts" /\ exitCode = 1
    /\ Len(thrown) = 1 /\ thrown[1].scen = 1 /\ thrown[1].at = "batch"
    /\ thrown[1].batch = 1 /\ cfg.batchSize = 2

\* The finite value v is a/b (b > 0).
IsQuotient(v, a, b) == v.kind = "num" /\ v.num * b = a * v.den

\* The finite value v is a/b (b > 0) rounded to the nearest integer.
IsRoundedQuotient(v, a, b) ==
    /\ v.kind = "num" /\ v.den = 1
    /\ 2 * v.num * b - b <= 2 * a /\ 2 * a < 2 * v.num * b + b

\* The results of scenario k: collected by main or passed to resolve.
ResultsOf(k) ==
    {results[x] : x \in {y \in 1..Len(results) : results[y].scen = k}}
        \cup Range(resolved[k])

\* C7 (state part): the timer of a processing scenario is started only
\* when every unit has been handed to addBulk, the elapsed value is set
\* exactly when the count has reached the expected count, and every result
\* of the scenario carries that elapsed value and the rate computed from
\* it.
C7_TimedInterval ==
    \A k \in ProcScens :
        /\ start[k] # None => Len(handed[k]) = cfg.numJobsProcess
        /\ elapsed[k] # None <=> signals[k] > 0
        /\ elapsed[k] # None =>
              /\ start[k] # None /\ elapsed[k] >= 0
              /\ processed[k] >= cfg.numJobsProcess
        /\ \A r \in ResultsOf(k) :
              /\ elapsed[k] # None /\ r.timeMs = elapsed[k]
              /\ r.jobs = cfg.numJobsProcess
              /\ TornDown(k)
              /\ elapsed[k] > 0 =>
                    IF prog = "ts"
                    THEN IsRoundedQuotient(r.rate, r.jobs * 1000, elapsed[k])
                    ELSE IsQuotient(r.rate, r.jobs * 1000, elapsed[k])

\* C7 (step part): the timer of a processing scenario is started in the
\* step in which the pre-load's addBulk call returns with every unit
\* stored; the elapsed value is set in the step in which the count reaches
\* the expected count, as the clock's distance from the timer start, while
\* the worker is still running and nothing is purged or closed; once set
\* it never changes, and neither does the timer start.
C7_ElapsedStep ==
    \A k \in ProcScens :
        /\ (start[k] = None /\ start'[k] # None) =>
              /\ scen = k /\ pc = "preload" /\ inflight' = {}
              /\ stored'[k] = {j \in 0..(cfg.numJobsProcess - 1) : TRUE}
              /\ start'[k] = now /\ processed'[k] = 0 /\ delivered[k] = 0
        /\ (elapsed[k] = None /\ elapsed'[k] # None) =>
              /\ processed[k] = cfg.numJobsProcess - 1
              /\ processed'[k] = cfg.numJobsProcess
              /\ elapsed'[k] = now - start[k]
              /\ worker[k] = "running" /\ queue'[k] = "open"
              /\ stored'[k] = stored[k] /\ hpc[k] = "idle"
        /\ elapsed[k] # None => elapsed'[k] = elapsed[k]
        /\ start[k] # None => start'[k] = start[k]

\* C7: the timed interval of the processing scenarios.
C7_Timing == [][C7_ElapsedStep]_vars /\ []C7_TimedInterval

\* C7 witness: a processing scenario returned a result whose elapsed time
\* is positive and whose rate had to be rounded.
C7_Witness ==
    \E k \in ProcScens :
        /\ prog = "ts" /\ k \in returned /\ elapsed[k] > 0
        /\ (cfg.numJobsProcess * 1000) % elapsed[k] # 0
        /\ scen = k + 1 /\ pc = "main"
        /\ \E r \in ResultsOf(k) : r.timeMs = elapsed[k]

\* C8: every result collected by main carries a rate that is a number and
\* equals unitCount / (elapsedMillis / 1000), and the rate is 0 when both
\* unitCount and elapsedMillis are 0.
C8_RateIsQuotient ==
    \A x \in 1..Len(results) :
        LET r == results[x]
        IN  /\ r.rate.kind = "num"
            /\ r.rate.num * r.timeMs = r.jobs * 1000 * r.rate.den
            /\ (r.jobs = 0 /\ r.timeMs = 0) => r.rate.num = 0

\* C9: in the addition and the bulk-addition scenario the indices handed
\* to the queue are 0, 1, 2, ... in call order, each once and none >= n,
\* and once the submission loop has ended they are exactly 0..n-1.
C9_IndicesExactlyOnce ==
    \A k \in {1, 2} :
        /\ Len(handed[k]) <= cfg.numJobsAdd
        /\ \A x \in 1..Len(handed[k]) : handed[k][x] = x - 1
        /\ elapsed[k] # None =>
              /\ Len(handed[k]) = cfg.numJobsAdd
              /\ \A j \in 0..(cfg.numJobsAdd - 1) :
                    Cardinality({x \in 1..Len(handed[k]) : handed[k][x] = j}) = 1

\* C9 witness: the bulk scenario of ts has ended its loop after more than
\* one chunk, the last one partial.
C9_Witness ==
    /\ prog = "ts" /\ elapsed[2] # None
    /\ cfg.numJobsAdd > chunkSize /\ cfg.numJobsAdd % chunkSize # 0
    /\ Len(handed[2]) = cfg.numJobsAdd

\* C10: the completion counter of every scenario equals the number of
\* completion notifications delivered to it so far.
C10_NoLostIncrement ==
    \A k \in Scen : processed[k] = delivered[k]

\* C10 witness: a notification was delivered while another unit was still
\* being processed, and every notification is counted.
C10_Witness ==
    \E k \in ProcScens :
        /\ cfg.concurrency = 2 /\ active[k] = 1
        /\ delivered[k] >= 1 /\ processed[k] = delivered[k]

\* main is suspended at the promise of processing scenario k.
AwaitsPromise(k) == k \in ProcScens /\ scen = k /\ pc = "promise"

\* C11: a processing scenario whose pre-load has returned eventually
\* returns its result with its worker and queue released, unless a call
\* fails and ends the run; this for every job count, 0 included.
C11_ProcessingTerminates ==
    \A k \in Scen :
        AwaitsPromise(k) ~> ((k \in returned /\ TornDown(k)) \/ exitCode = 1)

\* C11, as a state predicate: main never waits at the promise of a
\* scenario all of whose units have completed while no handler invocation
\* is on its way to resolve it.
C11_NoStuckWait ==
    \A k \in Scen :
        (AwaitsPromise(k) /\ delivered[k] = cfg.numJobsProcess) =>
            (hpc[k] # "idle" \/ resolved[k] # <<>>)

\* C11 restricted to job counts of at least 1.
C11_TerminatesWhenPositive ==
    \A k \in Scen :
        (AwaitsPromise(k) /\ cfg.numJobsProcess >= 1)
            ~> ((k \in returned /\ TornDown(k)) \/ exitCode = 1)
====
